---- MODULE Spec2Model ----
(***************************************************************************)
(* Library inventory manager (src/Library_app.py): the Book record, the    *)
(* LibraryInventory store and its JSON persistence.                        *)
(*                                                                         *)
(* Text is a sequence of characters, a character is a one-letter string.   *)
(* A Python value is a record [t, v]: t is the type tag, v the payload.    *)
(* A dict is a sequence of <<key, value>> pairs in insertion order.        *)
(***************************************************************************)
EXTENDS Integers, Sequences, FiniteSets, TLC

(***************************************************************************)
(* Bounds of the model.                                                    *)
(***************************************************************************)
MaxBooks == 2
MaxFaults == 1
MaxCalls == 4

(***************************************************************************)
(* Python values.                                                          *)
(***************************************************************************)
Str(s) == [t |-> "str", v |-> s]
Num(n) == [t |-> "num", v |-> n]
None == [t |-> "null", v |-> 0]
Bool(b) == [t |-> "bool", v |-> b]
Arr(items) == [t |-> "arr", v |-> items]
Obj(pairs) == [t |-> "obj", v |-> pairs]

\* Python's == on the values of the model: values of different types are
\* unequal, values of one type compare by payload.
PyEq(a, b) == IF a.t = b.t THEN a.v = b.v ELSE FALSE

\* Op applied to the value of v, v being evaluated once (a local variable).
With(v, Op(_)) == CHOOSE r \in {Op(x) : x \in {v}} : TRUE

\* The one non-ASCII character of the model's alphabet (e acute, U+00E9).
EAcute == "U+00E9"
\* The backspace character (U+0008).
Backspace == "U+0008"
\* Any other character reached through a \uXXXX escape.
OtherChar == "U+FFFD"

(***************************************************************************)
(* json.dumps(data, indent=2): ensure_ascii escaping, item separator ","   *)
(* followed by a newline and the indentation, key separator ": ".          *)
(***************************************************************************)
\* EscapeChar without the escaping: every character is written as it is.
EscapeChar_raw(c) == <<c>>

EscapeChar(c) ==
    CASE c = "\"" -> <<"\\", "\"">>
      [] c = "\\" -> <<"\\", "\\">>
      [] c = "\n" -> <<"\\", "n">>
      [] c = "\r" -> <<"\\", "r">>
      [] c = "\t" -> <<"\\", "t">>
      [] c = "\f" -> <<"\\", "f">>
      [] c = Backspace -> <<"\\", "b">>
      [] c = EAcute -> <<"\\", "u", "0", "0", "e", "9">>
      [] c = OtherChar -> <<"\\", "u", "f", "f", "f", "d">>
      [] OTHER -> <<c>>

RECURSIVE EncodeChars(_)
EncodeChars(s) ==
    IF s = <<>> THEN <<>> ELSE EscapeChar(Head(s)) \o EncodeChars(Tail(s))

EncodeString(s) == <<"\"">> \o EncodeChars(s) \o <<"\"">>

DigitChar(d) == <<"0", "1", "2", "3", "4", "5", "6", "7", "8", "9">>[d + 1]

RECURSIVE NatChars(_)
NatChars(n) ==
    IF n < 10 THEN <<DigitChar(n)>>
    ELSE NatChars(n \div 10) \o <<DigitChar(n % 10)>>

IntChars(n) == IF n < 0 THEN <<"-">> \o NatChars(0 - n) ELSE NatChars(n)

RECURSIVE Spaces(_)
Spaces(n) == IF n = 0 THEN <<>> ELSE <<" ">> \o Spaces(n - 1)

NewlineIndent(level) == <<"\n">> \o Spaces(2 * level)

RECURSIVE Encode(_, _), EncodeItems(_, _), EncodeMembers(_, _)
Encode(v, level) ==
    CASE v.t = "str" -> EncodeString(v.v)
      [] v.t = "num" -> IntChars(v.v)
      [] v.t = "null" -> <<"n", "u", "l", "l">>
      [] v.t = "bool" -> IF v.v THEN <<"t", "r", "u", "e">>
                         ELSE <<"f", "a", "l", "s", "e">>
      [] v.t = "arr" ->
            IF Len(v.v) = 0 THEN <<"[", "]">>
            ELSE <<"[">> \o NewlineIndent(level + 1)
                 \o EncodeItems(v.v, level + 1)
                 \o NewlineIndent(level) \o <<"]">>
      [] v.t = "obj" ->
            IF Len(v.v) = 0 THEN <<"{", "}">>
            ELSE <<"{">> \o NewlineIndent(level + 1)
                 \o EncodeMembers(v.v, level + 1)
                 \o NewlineIndent(level) \o <<"}">>

EncodeItems(items, level) ==
    Encode(items[1], level)
    \o (IF Len(items) = 1 THEN <<>>
        ELSE <<",">> \o NewlineIndent(level) \o EncodeItems(Tail(items), level))

EncodeMembers(pairs, level) ==
    EncodeString(pairs[1][1]) \o <<":", " ">> \o Encode(pairs[1][2], level)
    \o (IF Len(pairs) = 1 THEN <<>>
        ELSE <<",">> \o NewlineIndent(level) \o EncodeMembers(Tail(pairs), level))

dumps(data) == Encode(data, 0)

(***************************************************************************)
(* json.loads(text): the recursive-descent scanner of the json module.     *)
(* A result is [ok, val, next]; next is the position after the value.      *)
(* Numbers are the integers of the JSON grammar (no fraction, no exponent).*)
(***************************************************************************)
JSONWhitespace == {" ", "\t", "\n", "\r"}
ControlChars == {"\n", "\r", "\t", "\f", Backspace}
Digits == {"0", "1", "2", "3", "4", "5", "6", "7", "8", "9"}
HexDigits == Digits \cup {"a", "b", "c", "d", "e", "f", "A", "B", "C", "D", "E", "F"}

Fail == [ok |-> FALSE, val |-> None, next |-> 0]
Ok(val, next) == [ok |-> TRUE, val |-> val, next |-> next]

RECURSIVE SkipWhitespace(_, _)
SkipWhitespace(s, i) ==
    IF i <= Len(s) /\ s[i] \in JSONWhitespace THEN SkipWhitespace(s, i + 1) ELSE i

At(s, i) == IF i >= 1 /\ i <= Len(s) THEN s[i] ELSE "<end>"

HexLower(c) ==
    CASE c = "A" -> "a" [] c = "B" -> "b" [] c = "C" -> "c"
      [] c = "D" -> "d" [] c = "E" -> "e" [] c = "F" -> "f" [] OTHER -> c

\* The character a \uXXXX escape stands for.
UnicodeChar(h) ==
    LET l == <<HexLower(h[1]), HexLower(h[2]), HexLower(h[3]), HexLower(h[4])>>
    IN  CASE l = <<"0", "0", "e", "9">> -> EAcute
          [] l = <<"0", "0", "2", "2">> -> "\""
          [] l = <<"0", "0", "5", "c">> -> "\\"
          [] l = <<"0", "0", "0", "a">> -> "\n"
          [] l = <<"0", "0", "4", "4">> -> "D"
          [] OTHER -> OtherChar

Backslash(c) ==
    CASE c = "\"" -> "\"" [] c = "\\" -> "\\" [] c = "/" -> "/"
      [] c = "n" -> "\n" [] c = "r" -> "\r" [] c = "t" -> "\t"
      [] c = "f" -> "\f" [] c = "b" -> Backspace [] OTHER -> "<none>"

\* py_scanstring, strict: i is the position after the opening quote.
RECURSIVE scanstring(_, _, _)
scanstring(s, i, acc) ==
    IF i > Len(s) THEN Fail
    ELSE IF s[i] = "\"" THEN Ok(acc, i + 1)
    ELSE IF s[i] = "\\" THEN
        IF i + 1 > Len(s) THEN Fail
        ELSE IF s[i + 1] = "u" THEN
            IF i + 5 <= Len(s) /\ \A k \in 2..5 : s[i + k] \in HexDigits
            THEN scanstring(s, i + 6,
                     Append(acc, UnicodeChar(<<s[i + 2], s[i + 3], s[i + 4], s[i + 5]>>)))
            ELSE Fail
        ELSE IF Backslash(s[i + 1]) # "<none>"
             THEN scanstring(s, i + 2, Append(acc, Backslash(s[i + 1])))
             ELSE Fail
    ELSE IF s[i] \in ControlChars THEN Fail
    ELSE scanstring(s, i + 1, Append(acc, s[i]))

RECURSIVE DigitsEnd(_, _)
DigitsEnd(s, i) == IF At(s, i) \in Digits THEN DigitsEnd(s, i + 1) ELSE i

DigitValue(c) == CHOOSE d \in 0..9 : DigitChar(d) = c

RECURSIVE NatValue(_, _, _)
NatValue(s, i, j) ==
    IF j < i THEN 0 ELSE 10 * NatValue(s, i, j - 1) + DigitValue(s[j])

\* NUMBER_RE restricted to integers: -?(0|[1-9][0-9]*)
match_number(s, i) ==
    LET neg == At(s, i) = "-"
        j == IF neg THEN i + 1 ELSE i
        e == IF At(s, j) = "0" THEN j + 1 ELSE DigitsEnd(s, j)
    IN  IF At(s, j) \notin Digits THEN Fail
        ELSE Ok(Num(IF neg THEN 0 - NatValue(s, j, e - 1) ELSE NatValue(s, j, e - 1)), e)

Matches(s, i, word) ==
    /\ i + Len(word) - 1 <= Len(s)
    /\ \A k \in 1..Len(word) : s[i + k - 1] = word[k]

\* dict(pairs): a repeated key keeps its first position and its last value.
DictSet(pairs, key, val) ==
    IF \E k \in 1..Len(pairs) : pairs[k][1] = key
    THEN [k \in 1..Len(pairs) |->
            IF pairs[k][1] = key THEN <<key, val>> ELSE pairs[k]]
    ELSE Append(pairs, <<key, val>>)

RECURSIVE scan_once(_, _), JSONArray(_, _, _), JSONObject(_, _, _)
scan_once(s, i) ==
    IF i > Len(s) THEN Fail
    ELSE IF s[i] = "\"" THEN
        With(scanstring(s, i + 1, <<>>), LAMBDA r :
            IF r.ok THEN Ok(Str(r.val), r.next) ELSE Fail)
    ELSE IF s[i] = "{" THEN
        With(SkipWhitespace(s, i + 1), LAMBDA j :
            IF At(s, j) = "}" THEN Ok(Obj(<<>>), j + 1)
            ELSE IF At(s, j) # "\"" THEN Fail
            ELSE JSONObject(s, j + 1, <<>>))
    ELSE IF s[i] = "[" THEN
        With(SkipWhitespace(s, i + 1), LAMBDA j :
            IF At(s, j) = "]" THEN Ok(Arr(<<>>), j + 1)
            ELSE JSONArray(s, j, <<>>))
    ELSE IF Matches(s, i, <<"n", "u", "l", "l">>) THEN Ok(None, i + 4)
    ELSE IF Matches(s, i, <<"t", "r", "u", "e">>) THEN Ok(Bool(TRUE), i + 4)
    ELSE IF Matches(s, i, <<"f", "a", "l", "s", "e">>) THEN Ok(Bool(FALSE), i + 5)
    ELSE match_number(s, i)

\* i is the position of the next item, acc the items before it.
JSONArray(s, i, acc) ==
    With(scan_once(s, i), LAMBDA r :
        IF ~r.ok THEN Fail
        ELSE With(SkipWhitespace(s, r.next), LAMBDA j :
            IF At(s, j) = "]" THEN Ok(Arr(Append(acc, r.val)), j + 1)
            ELSE IF At(s, j) = "," THEN
                With(<<SkipWhitespace(s, j + 1), Append(acc, r.val)>>, LAMBDA n :
                    JSONArray(s, n[1], n[2]))
            ELSE Fail))

\* i is the position after the opening quote of the next key, acc the
\* members before it.
JSONObject(s, i, acc) ==
    With(scanstring(s, i, <<>>), LAMBDA k :
        IF ~k.ok THEN Fail
        ELSE With(SkipWhitespace(s, k.next), LAMBDA c :
            IF At(s, c) # ":" THEN Fail
            ELSE With(SkipWhitespace(s, c + 1), LAMBDA v :
                With(scan_once(s, v), LAMBDA r :
                    IF ~r.ok THEN Fail
                    ELSE With(<<SkipWhitespace(s, r.next), DictSet(acc, k.val, r.val)>>,
                              LAMBDA j :
                        IF At(s, j[1]) = "}" THEN Ok(Obj(j[2]), j[1] + 1)
                        ELSE IF At(s, j[1]) = "," THEN
                            With(SkipWhitespace(s, j[1] + 1), LAMBDA q :
                                IF At(s, q) = "\"" THEN JSONObject(s, q + 1, j[2])
                                ELSE Fail)
                        ELSE Fail)))))

\* JSONDecoder.decode: one value, then nothing but whitespace.
loads(s) ==
    With(SkipWhitespace(s, 1), LAMBDA i :
        With(scan_once(s, i), LAMBDA r :
            IF ~r.ok THEN Fail
            ELSE IF SkipWhitespace(s, r.next) <= Len(s) THEN Fail
            ELSE r))

\* str.strip(): Python's whitespace is wider than JSON's.
PyWhitespace == JSONWhitespace \cup {"\f"}

RECURSIVE LStrip(_), RStrip(_)
LStrip(s) == IF s # <<>> /\ Head(s) \in PyWhitespace THEN LStrip(Tail(s)) ELSE s
RStrip(s) ==
    IF s # <<>> /\ s[Len(s)] \in PyWhitespace
    THEN RStrip(SubSeq(s, 1, Len(s) - 1)) ELSE s

strip(s) == RStrip(LStrip(s))

(***************************************************************************)
(* The strings of the program and of the inputs.                           *)
(***************************************************************************)
Available == <<"a", "v", "a", "i", "l", "a", "b", "l", "e">>
Issued == <<"i", "s", "s", "u", "e", "d">>
Lost == <<"l", "o", "s", "t">>
KTitle == <<"t", "i", "t", "l", "e">>
KAuthor == <<"a", "u", "t", "h", "o", "r">>
KIsbn == <<"i", "s", "b", "n">>
KStatus == <<"s", "t", "a", "t", "u", "s">>
KYear == <<"y", "e", "a", "r">>

Dune == <<"D", "u", "n", "e">>
Dune2 == <<"D", "u", "n", "e", " ", "2">>
Quoted == <<"\"", "\\", EAcute>>
Herbert == <<"H", "e", "r", "b", "e", "r", "t">>
Isbn111 == <<"1", "1", "1">>
Isbn112 == <<"1", "1", "2">>
Isbn999 == <<"9", "9", "9">>

\* The (title, author, isbn) triples add_book is called with, and the isbns
\* issue_book and return_book are called with.
AddInputs == {<<Dune, Herbert, Isbn111>>, <<Dune2, Herbert, Isbn112>>}
LookupIsbns == {Isbn111, Isbn112, Isbn999}

(***************************************************************************)
(* class Book                                                              *)
(***************************************************************************)
Book(title, author, isbn, status) ==
    [title |-> title, author |-> author, isbn |-> isbn, status |-> status]

to_dict(b) ==
    Obj(<< <<KTitle, b.title>>, <<KAuthor, b.author>>,
           <<KIsbn, b.isbn>>, <<KStatus, b.status>> >>)

NoExc == [type |-> "none", msg |-> ""]
ValueError(msg) == [type |-> "ValueError", msg |-> msg]
AlreadyIssued == ValueError("Book is already issued.")
AlreadyAvailable == ValueError("Book is already available.")
NotFound == ValueError("Book not found.")
Duplicate == ValueError("A book with this ISBN already exists.")

\* Book.issue and Book.return_book: the exception raised and the Book after.
\* Book.issue without the assignment of the new status.
Book_issue_keeps(b) ==
    IF PyEq(b.status, Str(Issued)) THEN [exc |-> AlreadyIssued, book |-> b]
    ELSE [exc |-> NoExc, book |-> b]

Book_issue(b) ==
    IF PyEq(b.status, Str(Issued)) THEN [exc |-> AlreadyIssued, book |-> b]
    ELSE [exc |-> NoExc, book |-> [b EXCEPT !.status = Str(Issued)]]

Book_return_book(b) ==
    IF PyEq(b.status, Str(Available)) THEN [exc |-> AlreadyAvailable, book |-> b]
    ELSE [exc |-> NoExc, book |-> [b EXCEPT !.status = Str(Available)]]

is_available(b) == PyEq(b.status, Str(Available))

(***************************************************************************)
(* The file system: a path is [parent, stem, suffix]; a file is absent, a  *)
(* text file, a file whose bytes are not UTF-8 ("binary"), or a file that  *)
(* cannot be read ("unreadable").                                          *)
(***************************************************************************)
NoFile == [kind |-> "absent", text |-> <<>>]
File(text) == [kind |-> "file", text |-> text]
Binary == [kind |-> "binary", text |-> <<>>]
Unreadable == [kind |-> "unreadable", text |-> <<>>]

Path(parent, stem, suffix) == [parent |-> parent, stem |-> stem, suffix |-> suffix]
with_suffix(p, suffix) == [p EXCEPT !.suffix = suffix]

StoragePaths == {Path("data", "books", ".json"), Path("data", "books", ".tmp")}
AllPaths == StoragePaths \cup {with_suffix(p, ".tmp") : p \in StoragePaths}

(***************************************************************************)
(* LibraryInventory._load                                                  *)
(***************************************************************************)
HasKey(pairs, key) == \E k \in 1..Len(pairs) : pairs[k][1] = key
Get(pairs, key) == pairs[CHOOSE k \in 1..Len(pairs) : pairs[k][1] = key][2]

\* Book(**item): the keyword arguments must be title, author, isbn and
\* optionally status; anything else is a TypeError.
BookFromItem(item) ==
    IF item.t # "obj" THEN [ok |-> FALSE, book |-> Book(None, None, None, None)]
    ELSE IF \E k \in 1..Len(item.v) :
                item.v[k][1] \notin {KTitle, KAuthor, KIsbn, KStatus}
         THEN [ok |-> FALSE, book |-> Book(None, None, None, None)]
    ELSE IF ~(HasKey(item.v, KTitle) /\ HasKey(item.v, KAuthor) /\ HasKey(item.v, KIsbn))
         THEN [ok |-> FALSE, book |-> Book(None, None, None, None)]
    ELSE [ok |-> TRUE,
          book |-> Book(Get(item.v, KTitle), Get(item.v, KAuthor), Get(item.v, KIsbn),
                        IF HasKey(item.v, KStatus) THEN Get(item.v, KStatus)
                        ELSE Str(Available))]

\* [Book(**item) for item in data]: iterating a list gives its items, a dict
\* its keys, a str its characters; anything else is not iterable.
BuildBooks(data) ==
    CASE data.t = "arr" ->
            IF \A k \in 1..Len(data.v) : BookFromItem(data.v[k]).ok
            THEN [exc |-> "none",
                  books |-> [k \in 1..Len(data.v) |-> BookFromItem(data.v[k]).book]]
            ELSE [exc |-> "TypeError", books |-> <<>>]
      [] data.t \in {"obj", "str"} ->
            IF Len(data.v) = 0 THEN [exc |-> "none", books |-> <<>>]
            ELSE [exc |-> "TypeError", books |-> <<>>]
      [] OTHER -> [exc |-> "TypeError", books |-> <<>>]

\* The body of the try block of _load.
load_body(content) ==
    IF content.kind = "absent" THEN [exc |-> "none", books |-> <<>>]
    ELSE IF content.kind = "unreadable" THEN [exc |-> "PermissionError", books |-> <<>>]
    ELSE IF content.kind = "binary" THEN [exc |-> "UnicodeDecodeError", books |-> <<>>]
    ELSE With(strip(content.text), LAMBDA text :
            IF text = <<>> THEN [exc |-> "none", books |-> <<>>]
            ELSE With(loads(text), LAMBDA data :
                IF ~data.ok THEN [exc |-> "JSONDecodeError", books |-> <<>>]
                ELSE BuildBooks(data.val)))

\* except Exception: self.books = []
load_except(r) == [raised |-> FALSE, books |-> <<>>]

_load(content) ==
    With(load_body(content), LAMBDA r :
        IF r.exc = "none" THEN [raised |-> FALSE, books |-> r.books]
        ELSE load_except(r))

(***************************************************************************)
(* LibraryInventory._save: fault names the step that fails ("none" when    *)
(* every step succeeds), cut how much a failed write left in the file.     *)
(* steps lists the file system after each step that changed it.            *)
(***************************************************************************)
Faults == {"mkdir", "open", "write", "replace"}

\* A snapshot of the last Book alone.
Snapshot_last(bs) ==
    dumps(Arr([k \in 1..(IF bs = <<>> THEN 0 ELSE 1) |-> to_dict(bs[Len(bs)])]))

Snapshot(bs) == dumps(Arr([k \in 1..Len(bs) |-> to_dict(bs[k])]))

\* A rename that is not made: the target keeps its content.
replace_kept(f, tmp, path) == f

\* tmp.replace(self.storage_path)
replace(f, tmp, path) ==
    IF tmp = path THEN f ELSE [f EXCEPT ![path] = f[tmp], ![tmp] = NoFile]

save_steps(f, d, text, path, fault, cut) ==
    LET tmp == with_suffix(path, ".tmp")
        opened == [f EXCEPT ![tmp] = File(<<>>)]
        partial == [f EXCEPT ![tmp] = File(SubSeq(text, 1, (cut * Len(text)) \div 2))]
        written == [f EXCEPT ![tmp] = File(text)]
        replaced == replace(written, tmp, path)
    IN  CASE fault = "mkdir" ->
                [exc |-> "OSError", fs |-> f, dir |-> d, steps |-> <<>>]
          [] fault = "open" ->
                [exc |-> "OSError", fs |-> f, dir |-> TRUE, steps |-> <<>>]
          [] fault = "write" ->
                [exc |-> "OSError", fs |-> partial, dir |-> TRUE,
                 steps |-> <<opened, partial>>]
          [] fault = "replace" ->
                [exc |-> "OSError", fs |-> written, dir |-> TRUE,
                 steps |-> <<opened, written>>]
          [] OTHER ->
                [exc |-> "none", fs |-> replaced, dir |-> TRUE,
                 steps |-> <<opened, written, replaced>>]

\* The body of the try block of _save.
save_body(f, d, bs, path, fault, cut) ==
    With(Snapshot(bs), LAMBDA text : save_steps(f, d, text, path, fault, cut))

\* An except clause that lets the exception out.
save_except_raises(r) == TRUE

\* except Exception: pass
save_except(r) == FALSE

_save(f, d, bs, path, fault, cut) ==
    With(save_body(f, d, bs, path, fault, cut), LAMBDA r :
        [raised |-> IF r.exc = "none" THEN FALSE ELSE save_except(r),
         ok |-> r.exc = "none", fs |-> r.fs, dir |-> r.dir, steps |-> r.steps])

\* What a failed write can leave behind: any prefix of the text; the model
\* draws the empty prefix (cut 0) and the first half (cut 1).
Cuts == {0, 1}

(***************************************************************************)
(* LibraryInventory.search_by_isbn: the position of the first Book with    *)
(* that isbn, 0 for None.                                                  *)
(***************************************************************************)
\* search_by_isbn that finds nothing.
search_by_isbn_never(bs, isbn) == 0

\* search_by_isbn that returns the first Book whatever its isbn.
search_by_isbn_any(bs, isbn) == IF Len(bs) > 0 THEN 1 ELSE 0

\* search_by_isbn that returns the last match instead of the first.
search_by_isbn_last(bs, isbn) ==
    IF \E k \in 1..Len(bs) : PyEq(bs[k].isbn, isbn)
    THEN CHOOSE k \in 1..Len(bs) :
            /\ PyEq(bs[k].isbn, isbn)
            /\ \A j \in (k + 1)..Len(bs) : ~PyEq(bs[j].isbn, isbn)
    ELSE 0

\* search_by_isbn that takes a Book whose isbn contains the argument.
search_by_isbn_within(bs, isbn) ==
    LET Within(k) ==
            /\ bs[k].isbn.t = "str" /\ isbn.t = "str"
            /\ \E i \in 0..(Len(bs[k].isbn.v) - Len(isbn.v)) :
                  SubSeq(bs[k].isbn.v, i + 1, i + Len(isbn.v)) = isbn.v
    IN  IF \E k \in 1..Len(bs) : Within(k)
        THEN CHOOSE k \in 1..Len(bs) : Within(k) /\ \A j \in 1..(k - 1) : ~Within(j)
        ELSE 0

search_by_isbn(bs, isbn) ==
    IF \E k \in 1..Len(bs) : PyEq(bs[k].isbn, isbn)
    THEN CHOOSE k \in 1..Len(bs) :
            /\ PyEq(bs[k].isbn, isbn)
            /\ \A j \in 1..(k - 1) : ~PyEq(bs[j].isbn, isbn)
    ELSE 0

(***************************************************************************)
(* The state.                                                              *)
(*   storage_path  the path the store was constructed on                   *)
(*   fs, dir       the files, and whether the parent directory exists      *)
(*   books         self.books                                              *)
(*   call          the last call made on the store                         *)
(*   result        the exception that call raised (NoExc when it returned) *)
(*   ret           the value it returned                                   *)
(*   persist       how its _save went: "skipped", "ok" or the failed step  *)
(*   faults        the number of persist failures since the last persist  *)
(*                 that succeeded                                          *)
(*   scn           progress through the scenario add, add, issue, list     *)
(*                 on an empty store (-1 once the calls depart from it)    *)
(*   healed        when that _save succeeded, the number of failed persists *)
(*                 it followed (0 otherwise)                               *)
(*   bk, calls     a single Book and the calls made on it (BookSpec)       *)
(*   pc            where main is: "import" while main does not run, "menu" *)
(*                 at the top of its loop, "exited" once the process ended *)
(*   choice        the menu choice of the last pass of the loop            *)
(*   stdout        what the last pass of the loop printed                  *)
(*   exitcode      the exit status of the process (-1 while it runs)       *)
(***************************************************************************)
VARIABLES storage_path, fs, dir, books, call, result, ret, persist, faults,
          healed, scn, bk, calls, pc, choice, stdout, exitcode

vars == <<storage_path, fs, dir, books, call, result, ret, persist, faults,
          healed, scn, bk, calls, pc, choice, stdout, exitcode>>

\* main does not run: the module is imported and its classes are called.
NoMain == pc = "import" /\ choice = <<>> /\ stdout = <<>> /\ exitcode = -1
Idle == UNCHANGED <<pc, choice, stdout, exitcode>>

NoReturn == [kind |-> "None", val |-> <<>>]
Call(op, args) == [op |-> op, args |-> args]

\* Book(title=title, author=author, isbn=isbn): status takes its default.
NewBook(title, author, isbn) == Book(title, author, isbn, Str(Available))

\* An insertion at the front instead of the end.
append_front(bs, book) == <<book>> \o bs

\* self.books.append(book)
append(bs, book) == Append(bs, book)

\* The steps of the scenario, in order.
Scenario ==
    << Call("add_book", <<Str(Dune), Str(Herbert), Str(Isbn111)>>),
       Call("add_book", <<Str(Dune2), Str(Herbert), Str(Isbn112)>>),
       Call("issue_book", <<Str(Isbn111)>>),
       Call("display_all", <<>>) >>

ScnStep(n, c) ==
    IF n >= 0 /\ n < Len(Scenario) /\ c = Scenario[n + 1] THEN n + 1 ELSE -1

FaultChoices == IF faults < MaxFaults THEN Faults \cup {"none"} ELSE {"none"}

\* A rename of a file onto itself does nothing and cannot fail.
FaultApplies(fault, path) == fault = "replace" => with_suffix(path, ".tmp") # path

CutChoices(fault) == IF fault = "write" THEN Cuts ELSE {0}

NoBook == Book(None, None, None, None)

(***************************************************************************)
(* The files a store can be constructed on.                                *)
(***************************************************************************)
Compact(pairs) ==
    <<"[", "{">> \o EncodeString(pairs[1][1]) \o <<":">> \o Encode(pairs[1][2], 0)
    \o <<",">> \o EncodeString(pairs[2][1]) \o <<":">> \o Encode(pairs[2][2], 0)
    \o <<",">> \o EncodeString(pairs[3][1]) \o <<":">> \o Encode(pairs[3][2], 0)
    \o (IF Len(pairs) = 3 THEN <<>>
        ELSE <<",">> \o EncodeString(pairs[4][1]) \o <<":">> \o Encode(pairs[4][2], 0))
    \o <<"}", "]">>

\* The text of a string that needs no escaping, between its quotes.
Plain(s) == <<"\"">> \o s \o <<"\"">>

\* A file of one issued Book whose title is Quoted, as text:
\* [{"title":"\"\\\u00e9","author":"Herbert","isbn":"112","status":"issued"}]
QuotedFile ==
    <<"[", "{">> \o Plain(KTitle) \o <<":">>
    \o <<"\"", "\\", "\"", "\\", "\\", "\\", "u", "0", "0", "e", "9", "\"">>
    \o <<",">> \o Plain(KAuthor) \o <<":">> \o Plain(Herbert)
    \o <<",">> \o Plain(KIsbn) \o <<":">> \o Plain(Isbn112)
    \o <<",">> \o Plain(KStatus) \o <<":">> \o Plain(Issued)
    \o <<"}", "]">>

\* The files the store of Spec starts on.
StoreFiles ==
    { NoFile,
      File(<<"[", "{">>),
      File(QuotedFile),
      File(Snapshot(<<Book(Str(Dune), Str(Herbert), Str(Isbn111), Str(Issued)),
                      Book(Str(Dune2), Str(Herbert), Str(Isbn111), Str(Available))>>)),
      File(Snapshot(<<Book(Str(Dune), Str(Herbert), Str(Isbn111), Str(Lost))>>)),
      File(Snapshot(<<Book(Num(12), None, Str(Isbn111), Num(7))>>)) }

\* The files the constructor is tried on (LoadSpec).
LoadFiles ==
    { NoFile, Binary, Unreadable,
      File(<<>>),
      File(<<" ", "\n", "\f">>),
      File(<<"[", "]">>),
      File(<<"\f", "[", "]", "\n">>),
      File(<<"[", "{">>),
      File(<<"[", "]", "x">>),
      File(<<"7">>),
      File(<<"n", "u", "l", "l">>),
      File(<<"{", "}">>),
      File(<<"\"", "\"">>),
      File(<<"\"", "a", "\"">>),
      File(<<"{", "\"", "a", "\"", ":", "1", "}">>),
      File(<<"[", "1", "]">>),
      File(<<"[", "[", "]", "]">>),
      File(<<"[", "n", "u", "l", "l", "]">>),
      File(<<"t", "r", "u", "e">>),
      File(<<"-", "1", "2">>),
      File(<<"[", "1", ",", "]">>),
      File(dumps(to_dict(Book(Str(Dune), Str(Herbert), Str(Isbn111), Str(Available))))),
      File(Snapshot(<<Book(Str(Dune), Str(Herbert), Str(Isbn111), Str(Available))>>)),
      File(Snapshot(<<Book(Str(Quoted), Str(Herbert), Str(Isbn112), Str(Issued))>>)),
      File(Snapshot(<<Book(Str(Dune), Str(Herbert), Str(Isbn111), Str(Issued)),
                      Book(Str(Dune2), Str(Herbert), Str(Isbn111), Str(Available))>>)),
      File(Snapshot(<<Book(Str(Dune), Str(Herbert), Str(Isbn111), Str(Lost))>>)),
      File(Snapshot(<<Book(Num(12), None, Str(Isbn111), Num(7))>>)),
      File(<<"[", "{", "\"", "t", "i", "t", "l", "e", "\"", ":", "\"", "\\", "u",
             "0", "0", "4", "4", "u", "n", "e", "\"", ",", "\"", "a", "u", "t",
             "h", "o", "r", "\"", ":", "\"", "H", "e", "r", "b", "e", "r", "t", "\"",
             ",", "\"", "i", "s", "b", "n", "\"", ":", "\"", "1", "1", "1", "\"", ",", "\"", "s", "t", "a",
             "t", "u", "s", "\"", ":", "\"", "i", "s", "s", "u", "e", "d", "\"",
             "}", "]">>),
      File(Compact(<< <<KTitle, Str(Dune)>>, <<KAuthor, Str(Herbert)>>,
                      <<KIsbn, Str(Isbn111)>> >>)),
      File(Compact(<< <<KTitle, Str(Dune)>>, <<KAuthor, Str(Herbert)>>,
                      <<KStatus, Str(Available)>> >>)),
      File(Compact(<< <<KTitle, Str(Dune)>>, <<KAuthor, Str(Herbert)>>,
                      <<KIsbn, Str(Isbn111)>>, <<KYear, Num(1965)>> >>)),
      File(dumps(Arr(<<to_dict(Book(Str(Dune), Str(Herbert), Str(Isbn111), Str(Available))),
                       Num(1)>>))) }

(***************************************************************************)
(* LibraryInventory(storage_path): the constructor, at start-up and again  *)
(* whenever the program is started anew on the same files.                 *)
(***************************************************************************)
Raised(exc) == [type |-> exc, msg |-> ""]

Init ==
    /\ storage_path \in StoragePaths
    /\ dir \in BOOLEAN
    /\ \E content \in StoreFiles :
          /\ dir = FALSE => content = NoFile
          /\ fs = [p \in AllPaths |-> IF p = storage_path THEN content ELSE NoFile]
          /\ \E l \in {_load(content)} :
                /\ books = l.books
                /\ result = IF l.raised THEN Raised("Exception") ELSE NoExc
    /\ call = Call("__init__", <<>>)
    /\ ret = NoReturn
    /\ persist = "skipped"
    /\ scn = IF books = <<>> THEN 0 ELSE -1
    /\ faults = 0
    /\ healed = 0
    /\ bk = NoBook
    /\ calls = <<>>
    /\ NoMain

LibraryInventory ==
    \E l \in {_load(fs[storage_path])} :
        /\ call.op # "__init__"
        /\ books' = l.books
        /\ call' = Call("__init__", <<>>)
        /\ result' = IF l.raised THEN Raised("Exception") ELSE NoExc
        /\ ret' = NoReturn
        /\ persist' = "skipped"
        /\ healed' = 0
        /\ scn' = IF l.books = <<>> THEN 0 ELSE -1
        /\ UNCHANGED <<storage_path, fs, dir, faults, bk, calls>>

(***************************************************************************)
(* The operations of the store.                                            *)
(***************************************************************************)
\* The call raised exc before it changed anything.
Raises(c, exc) ==
    /\ call' = c
    /\ result' = exc
    /\ ret' = NoReturn
    /\ persist' = "skipped"
    /\ healed' = 0
    /\ scn' = ScnStep(scn, c)
    /\ UNCHANGED <<storage_path, fs, dir, books, faults, bk, calls>>

\* The call changed self.books to bs, ran _save and returned value.
Mutates(c, bs, value, fault, cut) ==
    \E s \in {_save(fs, dir, bs, storage_path, fault, cut)} :
        /\ call' = c
        /\ books' = bs
        /\ fs' = s.fs
        /\ dir' = s.dir
        /\ result' = IF s.raised THEN Raised("OSError") ELSE NoExc
        /\ ret' = IF s.raised THEN NoReturn ELSE value
        /\ persist' = IF s.ok THEN "ok" ELSE fault
        /\ faults' = IF s.ok THEN 0 ELSE faults + 1
        /\ healed' = IF s.ok THEN faults ELSE 0
        /\ scn' = ScnStep(scn, c)
        /\ UNCHANGED <<storage_path, bk, calls>>

add_book(title, author, isbn, fault, cut) ==
    LET c == Call("add_book", <<title, author, isbn>>)
        book == NewBook(title, author, isbn)
    IN  IF search_by_isbn(books, isbn) # 0
        THEN fault = "none" /\ cut = 0 /\ Raises(c, Duplicate)
        ELSE /\ Len(books) < MaxBooks
             /\ cut \in CutChoices(fault)
             /\ Mutates(c, append(books, book), [kind |-> "Book", val |-> book],
                        fault, cut)

issue_book(isbn, fault, cut) ==
    LET c == Call("issue_book", <<isbn>>)
        k == search_by_isbn(books, isbn)
        r == Book_issue(books[k])
        bs == [books EXCEPT ![k] = r.book]
    IN  IF k = 0 THEN fault = "none" /\ cut = 0 /\ Raises(c, NotFound)
        ELSE IF r.exc # NoExc THEN fault = "none" /\ cut = 0 /\ Raises(c, r.exc)
        ELSE cut \in CutChoices(fault) /\ Mutates(c, bs, NoReturn, fault, cut)

return_book(isbn, fault, cut) ==
    LET c == Call("return_book", <<isbn>>)
        k == search_by_isbn(books, isbn)
        r == Book_return_book(books[k])
        bs == [books EXCEPT ![k] = r.book]
    IN  IF k = 0 THEN fault = "none" /\ cut = 0 /\ Raises(c, NotFound)
        ELSE IF r.exc # NoExc THEN fault = "none" /\ cut = 0 /\ Raises(c, r.exc)
        ELSE cut \in CutChoices(fault) /\ Mutates(c, bs, NoReturn, fault, cut)

\* list(self.books): a new list of the same Books.
display_all ==
    /\ call' = Call("display_all", <<>>)
    /\ result' = NoExc
    /\ ret' = [kind |-> "list", val |-> books]
    /\ persist' = "skipped"
    /\ healed' = 0
    /\ scn' = ScnStep(scn, Call("display_all", <<>>))
    /\ UNCHANGED <<storage_path, fs, dir, books, faults, bk, calls>>

(***************************************************************************)
(* LibraryInventory.search_by_title and the call of search_by_isbn.        *)
(***************************************************************************)
\* bool(v)
IsTrue(v) ==
    CASE v.t = "null" -> FALSE
      [] v.t = "bool" -> v.v
      [] v.t = "num" -> v.v # 0
      [] OTHER -> Len(v.v) > 0

\* a or b
Or(a, b) == IF IsTrue(a) THEN a ELSE b

UpperCase == <<"A", "B", "C", "D", "E", "F", "G", "H", "I", "J", "K", "L", "M",
               "N", "O", "P", "Q", "R", "S", "T", "U", "V", "W", "X", "Y", "Z">>
LowerCase == <<"a", "b", "c", "d", "e", "f", "g", "h", "i", "j", "k", "l", "m",
               "n", "o", "p", "q", "r", "s", "t", "u", "v", "w", "x", "y", "z">>

\* str.lower on the alphabet of the model: the ASCII capitals have a small
\* letter, every other character of the model is its own.
LowerChar(c) ==
    IF \E k \in 1..26 : UpperCase[k] = c
    THEN LowerCase[CHOOSE k \in 1..26 : UpperCase[k] = c]
    ELSE c

lower(s) == [k \in 1..Len(s) |-> LowerChar(s[k])]

\* q in s, on strings
Contains(q, s) ==
    \E i \in 0..(Len(s) - Len(q)) : SubSeq(s, i + 1, i + Len(q)) = q

AttributeError == Raised("AttributeError")

\* [b for b in bs if q in b.title.lower()], every title being a str
RECURSIVE Matching(_, _)
Matching(bs, q) ==
    IF bs = <<>> THEN <<>>
    ELSE (IF Contains(q, lower(Head(bs).title.v)) THEN <<Head(bs)>> ELSE <<>>)
         \o Matching(Tail(bs), q)

\* Only str has lower(): on any other value the attribute lookup raises.
search_by_title(bs, title_query) ==
    With(Or(title_query, Str(<<>>)), LAMBDA q :
        IF q.t # "str" THEN [exc |-> AttributeError, val |-> <<>>]
        ELSE IF \E k \in 1..Len(bs) : bs[k].title.t # "str"
             THEN [exc |-> AttributeError, val |-> <<>>]
        ELSE [exc |-> NoExc, val |-> Matching(bs, lower(q.v))])

\* The queries search_by_title is called with and the isbns search_by_isbn
\* is called with.
TitleQueries == {Str(<<>>), None, Str(<<"E", " ">>), Str(<<"x">>)}
SearchIsbns == {Isbn111, <<"1", "1">>, Dune}

\* The call returned value, or raised exc, and changed nothing.
Reads(c, exc, value) ==
    /\ call' = c
    /\ result' = exc
    /\ ret' = value
    /\ persist' = "skipped"
    /\ healed' = 0
    /\ scn' = ScnStep(scn, c)
    /\ UNCHANGED <<storage_path, fs, dir, books, faults, bk, calls>>

searchByTitle(title_query) ==
    \E r \in {search_by_title(books, title_query)} :
        Reads(Call("search_by_title", <<title_query>>), r.exc,
              IF r.exc = NoExc THEN [kind |-> "list", val |-> r.val] ELSE NoReturn)

searchByIsbn(isbn) ==
    \E k \in {search_by_isbn(books, isbn)} :
        Reads(Call("search_by_isbn", <<isbn>>), NoExc,
              IF k = 0 THEN NoReturn ELSE [kind |-> "Book", val |-> books[k]])

Next ==
    \/ LibraryInventory /\ Idle
    \/ \E in \in AddInputs :
          \E fault \in FaultChoices, cut \in Cuts :
             /\ FaultApplies(fault, storage_path)
             /\ add_book(Str(in[1]), Str(in[2]), Str(in[3]), fault, cut)
             /\ Idle
    \/ \E isbn \in LookupIsbns :
          \E fault \in FaultChoices, cut \in Cuts :
             /\ FaultApplies(fault, storage_path)
             /\ issue_book(Str(isbn), fault, cut)
             /\ Idle
    \/ \E isbn \in LookupIsbns :
          \E fault \in FaultChoices, cut \in Cuts :
             /\ FaultApplies(fault, storage_path)
             /\ return_book(Str(isbn), fault, cut)
             /\ Idle
    \/ display_all /\ Idle
    \/ \E q \in TitleQueries : searchByTitle(q) /\ Idle
    \/ \E isbn \in SearchIsbns : searchByIsbn(Str(isbn)) /\ Idle

Spec == Init /\ [][Next]_vars

(***************************************************************************)
(* LoadSpec: the constructor alone, on every file of LoadFiles.            *)
(***************************************************************************)
LoadInit ==
    /\ storage_path \in StoragePaths
    /\ dir \in BOOLEAN
    /\ \E content \in LoadFiles :
          /\ dir = FALSE => content = NoFile
          /\ fs = [p \in AllPaths |-> IF p = storage_path THEN content ELSE NoFile]
    /\ books = <<>>
    /\ call = Call("start", <<>>)
    /\ result = NoExc
    /\ ret = NoReturn
    /\ persist = "skipped"
    /\ scn = -1
    /\ faults = 0
    /\ healed = 0
    /\ bk = NoBook
    /\ calls = <<>>
    /\ NoMain

LoadNext == LibraryInventory /\ Idle

LoadSpec == LoadInit /\ [][LoadNext]_vars

(***************************************************************************)
(* BookSpec: one Book and the methods called on it.  Book.__init__ takes   *)
(* any status.  An entry of calls is the method, the status before it, the *)
(* exception it raised and the value it returned.                          *)
(***************************************************************************)
BookStatuses == {Str(Available), Str(Issued), Str(Lost)}

Called(method, before, exc, value) ==
    [method |-> method, before |-> before, exc |-> exc, ret |-> value]

BookInit ==
    /\ \E in \in AddInputs, status \in BookStatuses :
          bk = Book(Str(in[1]), Str(in[2]), Str(in[3]), status)
    /\ calls = <<>>
    /\ storage_path = Path("data", "books", ".json")
    /\ dir = FALSE
    /\ fs = [p \in AllPaths |-> NoFile]
    /\ books = <<>>
    /\ call = Call("start", <<>>)
    /\ result = NoExc
    /\ ret = NoReturn
    /\ persist = "skipped"
    /\ scn = -1
    /\ faults = 0
    /\ healed = 0
    /\ NoMain

StoreUnchanged ==
    UNCHANGED <<storage_path, fs, dir, books, call, result, ret, persist, faults,
                healed, scn, pc, choice, stdout, exitcode>>

issue ==
    /\ Len(calls) < MaxCalls
    /\ bk' = Book_issue(bk).book
    /\ calls' = Append(calls, Called("issue", bk.status, Book_issue(bk).exc, FALSE))
    /\ StoreUnchanged

returnBook ==
    /\ Len(calls) < MaxCalls
    /\ bk' = Book_return_book(bk).book
    /\ calls' = Append(calls, Called("return_book", bk.status,
                                     Book_return_book(bk).exc, FALSE))
    /\ StoreUnchanged

isAvailable ==
    /\ Len(calls) < MaxCalls
    /\ bk' = bk
    /\ calls' = Append(calls, Called("is_available", bk.status, NoExc, is_available(bk)))
    /\ StoreUnchanged

BookNext == issue \/ returnBook \/ isAvailable

BookSpec == BookInit /\ [][BookNext]_vars

(***************************************************************************)
(* ViewSpec: a caller of display_all and what it does with the list it got.*)
(* list(self.books) is a new list of the same Book objects: element k of   *)
(* the returned list is the object self.books[k].  The caller removes the  *)
(* last element of its list, or calls issue() on one of its elements.      *)
(***************************************************************************)
HoldsList == call.op \in {"display_all", "caller"} /\ ret.kind = "list"

caller_pop ==
    /\ HoldsList
    /\ ret.val # <<>>
    /\ ret' = [ret EXCEPT !.val = SubSeq(ret.val, 1, Len(ret.val) - 1)]
    /\ call' = Call("caller", <<"pop">>)
    /\ result' = NoExc
    /\ persist' = "skipped"
    /\ healed' = 0
    /\ scn' = -1
    /\ UNCHANGED <<storage_path, fs, dir, books, faults, bk, calls>>

caller_issue(k) ==
    /\ HoldsList
    /\ k \in 1..Len(ret.val)
    /\ \E r \in {Book_issue(books[k])} :
          /\ books' = [books EXCEPT ![k] = r.book]
          /\ ret' = [ret EXCEPT !.val[k] = r.book]
          /\ result' = r.exc
    /\ call' = Call("caller", <<"issue", k>>)
    /\ persist' = "skipped"
    /\ healed' = 0
    /\ scn' = -1
    /\ UNCHANGED <<storage_path, fs, dir, faults, bk, calls>>

ViewNext ==
    \/ \E in \in AddInputs : add_book(Str(in[1]), Str(in[2]), Str(in[3]), "none", 0) /\ Idle
    \/ display_all /\ Idle
    \/ caller_pop /\ Idle
    \/ \E k \in 1..MaxBooks : caller_issue(k) /\ Idle

\* The stores of Init whose Books are available or issued.
ViewInit ==
    /\ Init
    /\ \A k \in 1..Len(books) :
          is_available(books[k]) \/ PyEq(books[k].status, Str(Issued))

ViewSpec == ViewInit /\ [][ViewNext]_vars

(***************************************************************************)
(* MainSpec: main().  One step is one pass of the loop: the menu, the      *)
(* prompts of the choice, the call on the store and what is printed.  A    *)
(* prompt is answered by a line or by an interrupt (Ctrl-C, end of input). *)
(***************************************************************************)
\* str(v), as the f-string of Book.__str__ formats a field
PyStr(v) ==
    CASE v.t = "str" -> v.v
      [] v.t = "num" -> IntChars(v.v)
      [] v.t = "null" -> <<"N", "o", "n", "e">>
      [] v.t = "bool" -> IF v.v THEN <<"T", "r", "u", "e">>
                         ELSE <<"F", "a", "l", "s", "e">>

\* Book.__str__
Book_str(b) ==
    PyStr(b.title) \o <<" ", "b", "y", " ">> \o PyStr(b.author)
    \o <<" ", "(", "I", "S", "B", "N", ":", " ">> \o PyStr(b.isbn)
    \o <<")", " ", "-", " ">> \o PyStr(b.status)

\* A printed line: print(msg), print("Error:", e), print(b).
Line(msg) == [msg |-> msg, exc |-> NoExc, text |-> <<>>]
ErrorLine(e) == [msg |-> "Error:", exc |-> e, text |-> <<>>]
BookLine(b) == [msg |-> "", exc |-> NoExc, text |-> Book_str(b)]
BookLines(bs) == [k \in 1..Len(bs) |-> BookLine(bs[k])]

\* The lines typed at the menu prompt, and at the other prompts.
ChoiceLines ==
    { <<"1">>, <<"2">>, <<"3">>, <<"4">>, <<"5">>, <<"6">>, <<"7">>,
      <<" ", "4", "\t">>, <<"8">>, <<>> }
AddLines == AddInputs \cup {<<Dune, Herbert, <<" ", "1", "1", "1", " ">>>>}
IsbnLines == LookupIsbns \cup {<<" ", "1", "1", "1", " ">>}
QueryLines == {<<>>, <<"d", "u", "n", "e", " ">>, <<"x">>}
Interrupts == {"KeyboardInterrupt", "EOFError"}
Prompts == {"Choose an option (1-7): ", "Title: ", "Author: ", "ISBN: ",
            "ISBN to issue: ", "ISBN to return: ", "Enter title search query: ",
            "Enter ISBN: "}

MainInit ==
    /\ storage_path = Path("data", "books", ".json")
    /\ dir \in BOOLEAN
    /\ \E content \in StoreFiles :
          /\ dir = FALSE => content = NoFile
          /\ fs = [p \in AllPaths |-> IF p = storage_path THEN content ELSE NoFile]
          /\ \E l \in {_load(content)} :
                /\ books = l.books
                /\ result = IF l.raised THEN Raised("Exception") ELSE NoExc
    /\ call = Call("__init__", <<>>)
    /\ ret = NoReturn
    /\ persist = "skipped"
    /\ scn = IF books = <<>> THEN 0 ELSE -1
    /\ faults = 0
    /\ healed = 0
    /\ bk = NoBook
    /\ calls = <<>>
    /\ pc = "menu"
    /\ choice = <<>>
    /\ stdout = <<>>
    /\ exitcode = -1

\* The pass ends and the loop goes on to the menu.
Loops(c) == pc = "menu" /\ choice' = c /\ pc' = "menu" /\ exitcode' = exitcode

\* safe_input: the line stripped.
safe_input(line) == strip(line)

\* safe_input on an interrupt: print("\nExiting."), sys.exit(0).  Every prompt
\* comes before the call on the store.
interrupted(prompt, signal) ==
    /\ pc = "menu"
    /\ pc' = "exited"
    /\ exitcode' = 0
    /\ stdout' = <<Line("\nExiting.")>>
    /\ choice' = IF prompt = "Choose an option (1-7): " THEN choice
                 ELSE IF prompt \in {"Title: ", "Author: ", "ISBN: "} THEN <<"1">>
                 ELSE IF prompt = "ISBN to issue: " THEN <<"2">>
                 ELSE IF prompt = "ISBN to return: " THEN <<"3">>
                 ELSE IF prompt = "Enter title search query: " THEN <<"5">>
                 ELSE <<"6">>
    /\ UNCHANGED <<storage_path, fs, dir, books, call, result, ret, persist, faults,
                   healed, scn, bk, calls>>

\* What the try statements of choices 1, 2 and 3 print.
Outcome(done) == IF result' = NoExc THEN <<Line(done)>> ELSE <<ErrorLine(result')>>

choice1(line, in, fault, cut) ==
    /\ safe_input(line) = <<"1">>
    /\ Loops(<<"1">>)
    /\ add_book(Str(safe_input(in[1])), Str(safe_input(in[2])), Str(safe_input(in[3])),
                fault, cut)
    /\ stdout' = Outcome("Book added successfully.")

choice2(line, isbn, fault, cut) ==
    /\ safe_input(line) = <<"2">>
    /\ Loops(<<"2">>)
    /\ issue_book(Str(safe_input(isbn)), fault, cut)
    /\ stdout' = Outcome("Book issued.")

choice3(line, isbn, fault, cut) ==
    /\ safe_input(line) = <<"3">>
    /\ Loops(<<"3">>)
    /\ return_book(Str(safe_input(isbn)), fault, cut)
    /\ stdout' = Outcome("Book returned.")

choice4(line) ==
    /\ safe_input(line) = <<"4">>
    /\ Loops(<<"4">>)
    /\ display_all
    /\ stdout' = IF ret'.val = <<>> THEN <<Line("No books in catalog.")>>
                 ELSE BookLines(ret'.val)

\* Choice 5 has no try statement: what search_by_title raises ends main with
\* a traceback and exit status 1.
choice5(line, query) ==
    /\ safe_input(line) = <<"5">>
    /\ pc = "menu"
    /\ choice' = <<"5">>
    /\ searchByTitle(Str(safe_input(query)))
    /\ IF result' # NoExc
       THEN /\ pc' = "exited"
            /\ exitcode' = 1
            /\ stdout' = <<[msg |-> "Traceback (most recent call last):",
                            exc |-> result', text |-> <<>>]>>
       ELSE /\ pc' = "menu"
            /\ exitcode' = exitcode
            /\ stdout' = IF ret'.val = <<>> THEN <<Line("No matches.")>>
                         ELSE BookLines(ret'.val)

choice6(line, isbn) ==
    /\ safe_input(line) = <<"6">>
    /\ Loops(<<"6">>)
    /\ searchByIsbn(Str(safe_input(isbn)))
    /\ stdout' = IF ret' = NoReturn THEN <<Line("Not found.")>>
                 ELSE <<BookLine(ret'.val)>>

\* print("Goodbye."), break: main returns and the process ends with status 0.
choice7(line) ==
    /\ safe_input(line) = <<"7">>
    /\ pc = "menu"
    /\ choice' = <<"7">>
    /\ pc' = "exited"
    /\ exitcode' = 0
    /\ stdout' = <<Line("Goodbye.")>>
    /\ UNCHANGED <<storage_path, fs, dir, books, call, result, ret, persist, faults,
                   healed, scn, bk, calls>>

invalid(line) ==
    /\ safe_input(line) \notin {<<"1">>, <<"2">>, <<"3">>, <<"4">>, <<"5">>, <<"6">>, <<"7">>}
    /\ Loops(safe_input(line))
    /\ stdout' = <<Line("Invalid option. Try again.")>>
    /\ UNCHANGED <<storage_path, fs, dir, books, call, result, ret, persist, faults,
                   healed, scn, bk, calls>>

\* The steps of _save that fail under main: the write, leaving an empty
\* temporary file.
MainFaults == {"none", "write"}

MainNext ==
    \/ \E prompt \in Prompts, signal \in Interrupts : interrupted(prompt, signal)
    \/ \E line \in ChoiceLines, in \in AddLines :
          \E fault \in FaultChoices \cap MainFaults :
             choice1(line, in, fault, 0)
    \/ \E line \in ChoiceLines, isbn \in IsbnLines :
          \E fault \in FaultChoices \cap MainFaults :
             choice2(line, isbn, fault, 0)
    \/ \E line \in ChoiceLines, isbn \in IsbnLines :
          \E fault \in FaultChoices \cap MainFaults :
             choice3(line, isbn, fault, 0)
    \/ \E line \in ChoiceLines : choice4(line)
    \/ \E line \in ChoiceLines, query \in QueryLines : choice5(line, query)
    \/ \E line \in ChoiceLines, isbn \in IsbnLines : choice6(line, isbn)
    \/ \E line \in ChoiceLines : choice7(line)
    \/ \E line \in ChoiceLines : invalid(line)

MainSpec == MainInit /\ [][MainNext]_vars

(***************************************************************************)
(* The properties.                                                         *)
(***************************************************************************)
Same(a, b) == a.t = b.t /\ a.v = b.v
HasIsbn(bs, isbn) == \E k \in 1..Len(bs) : Same(bs[k].isbn, isbn)
FirstWith(bs, isbn) ==
    CHOOSE k \in 1..Len(bs) :
        /\ Same(bs[k].isbn, isbn)
        /\ \A j \in 1..(k - 1) : ~Same(bs[j].isbn, isbn)
Mutations == {"add_book", "issue_book", "return_book"}

\* C1: add_book with an isbn some stored Book already has fails with the
\* duplicate-key error and leaves self.books and every file as they were.
C1_DuplicateAddFails ==
    [][ (call'.op = "add_book" /\ HasIsbn(books, call'.args[3]))
        => (result' = Duplicate /\ books' = books /\ fs' = fs /\ dir' = dir) ]_vars

\* C1 witness: a duplicate add was refused, its title differing from the
\* title of the stored Book with that isbn.
C1_Witness ==
    /\ call.op = "add_book"
    /\ result = Duplicate
    /\ \E k \in 1..Len(books) :
          Same(books[k].isbn, call.args[3]) /\ ~Same(books[k].title, call.args[1])

\* C2: add_book with an isbn no stored Book has succeeds, returns the created
\* Book, and self.books becomes the old sequence with the one record (title,
\* author, isbn, available) appended; the old records keep place and fields.
C2_AddAppends ==
    [][ (call'.op = "add_book" /\ ~HasIsbn(books, call'.args[3]))
        => LET b == [title |-> call'.args[1], author |-> call'.args[2],
                     isbn |-> call'.args[3], status |-> Str(Available)]
           IN  /\ result' = NoExc
               /\ ret' = [kind |-> "Book", val |-> b]
               /\ books' = books \o <<b>> ]_vars

\* C2 witness: an add succeeded on a store that already held a Book.
C2_Witness ==
    /\ call.op = "add_book"
    /\ result = NoExc
    /\ ret.kind = "Book"
    /\ Len(books) = 2
    /\ books[2] = ret.val

\* C3: the status of a Book changes only from available to issued by issue
\* and from issued to available by return_book; issue on an issued Book and
\* return_book on an available Book fail with the invalid-state error and
\* leave the status; no operation makes any other transition.
C3_StateMachine ==
    [][ call'.op # "__init__" =>
        /\ Len(books') >= Len(books)
        /\ \A k \in 1..Len(books) :
              ~Same(books[k].status, books'[k].status) =>
                 \/ /\ call'.op = "issue_book"
                    /\ Same(books[k].status, Str(Available))
                    /\ Same(books'[k].status, Str(Issued))
                 \/ /\ call'.op = "return_book"
                    /\ Same(books[k].status, Str(Issued))
                    /\ Same(books'[k].status, Str(Available))
        /\ (call'.op = "issue_book" /\ HasIsbn(books, call'.args[1])) =>
              LET k == FirstWith(books, call'.args[1])
              IN  /\ Same(books[k].status, Str(Available)) =>
                        result' = NoExc /\ Same(books'[k].status, Str(Issued))
                  /\ Same(books[k].status, Str(Issued)) =>
                        result' = AlreadyIssued /\ books' = books
        /\ (call'.op = "return_book" /\ HasIsbn(books, call'.args[1])) =>
              LET k == FirstWith(books, call'.args[1])
              IN  /\ Same(books[k].status, Str(Issued)) =>
                        result' = NoExc /\ Same(books'[k].status, Str(Available))
                  /\ Same(books[k].status, Str(Available)) =>
                        result' = AlreadyAvailable /\ books' = books ]_vars

\* C4: on every Book an issue() right after an issue() fails; and on every
\* Book that is not issued, issue(), return_book(), issue() in a row all
\* succeed.
C4_IssueSequences ==
    /\ \A i \in 1..(Len(calls) - 1) :
          (calls[i].method = "issue" /\ calls[i + 1].method = "issue")
          => calls[i + 1].exc = AlreadyIssued
    /\ \A i \in 1..Len(calls) :
          (calls[i].method = "issue" /\ ~Same(calls[i].before, Str(Issued)))
          => calls[i].exc = NoExc
    /\ \A i \in 1..(Len(calls) - 2) :
          ( /\ calls[i].method = "issue" /\ calls[i].exc = NoExc
            /\ calls[i + 1].method = "return_book"
            /\ calls[i + 2].method = "issue" )
          => (calls[i + 1].exc = NoExc /\ calls[i + 2].exc = NoExc)

\* C4 witness: issue, return_book, issue succeeded in a row on a Book that
\* started available, and a fourth call, issue again, failed.
C4_Witness ==
    /\ Len(calls) = 4
    /\ Same(calls[1].before, Str(Available))
    /\ <<calls[1].method, calls[2].method, calls[3].method, calls[4].method>>
          = <<"issue", "return_book", "issue", "issue">>
    /\ <<calls[1].exc, calls[2].exc, calls[3].exc, calls[4].exc>>
          = <<NoExc, NoExc, NoExc, AlreadyIssued>>

\* C5: in every reachable state of the store, right after the load of any
\* file included, the status of every Book is available or issued.
C5_StatusIsOneOfTwo ==
    \A k \in 1..Len(books) :
        Same(books[k].status, Str(Available)) \/ Same(books[k].status, Str(Issued))

\* C6: issue_book and return_book with an isbn no stored Book has fail with
\* the not-found error and leave self.books and every file as they were; so
\* does issue_book on an empty store.
C6_UnknownIsbnNotFound ==
    [][ (call'.op \in {"issue_book", "return_book"} /\ ~HasIsbn(books, call'.args[1]))
        => (result' = NotFound /\ books' = books /\ fs' = fs /\ dir' = dir) ]_vars

\* C6 witness: issue_book("999") on an empty store failed with not-found.
C6_Witness ==
    /\ books = <<>>
    /\ call = Call("issue_book", <<Str(Isbn999)>>)
    /\ result = NotFound

\* C7: issue_book and return_book on a present isbn change nothing but the
\* status of the first Book with that isbn; when the Book refuses the
\* transition nothing changes and nothing is persisted; and after add Dune
\* 111, add Dune 2 112, issue_book 111 on an empty store display_all returns
\* exactly the two records, the first issued and the second available.
C7_Scenario ==
    scn = Len(Scenario) =>
       /\ ret = [kind |-> "list",
                 val |-> << Book(Str(Dune), Str(Herbert), Str(Isbn111), Str(Issued)),
                            Book(Str(Dune2), Str(Herbert), Str(Isbn112), Str(Available)) >>]
       /\ books = ret.val

C7_OnlyFirstStatus ==
    [][ (call'.op \in {"issue_book", "return_book"} /\ HasIsbn(books, call'.args[1]))
        => LET k == FirstWith(books, call'.args[1])
           IN  /\ Len(books') = Len(books)
               /\ \A j \in 1..Len(books) :
                     /\ books'[j].title = books[j].title
                     /\ books'[j].author = books[j].author
                     /\ books'[j].isbn = books[j].isbn
                     /\ j # k => books'[j].status = books[j].status
               /\ result' # NoExc =>
                     /\ result' \in {AlreadyIssued, AlreadyAvailable}
                     /\ books' = books /\ fs' = fs /\ dir' = dir
                     /\ persist' = "skipped" ]_vars

C7_IssueReturnFrame == C7_OnlyFirstStatus /\ []C7_Scenario

\* C7 witness: the scenario has run to its end.
C7_Witness == scn = Len(Scenario) /\ call.op = "display_all"

\* C8: after a _save that succeeded, _load of the same file gives back the
\* same Books: as many, in the same order, every field the same.
C8_RoundTrip ==
    persist = "ok" =>
       \A l \in {_load(fs[storage_path])} : ~l.raised /\ l.books = books

\* C8 witness: two Books were saved, one with a title that needs escaping.
C8_Witness ==
    /\ persist = "ok"
    /\ Len(books) = 2
    /\ books[1].title = Str(Quoted)

\* C9: the constructor never raises, and on a file that is absent, blank,
\* not JSON, or not a JSON array of objects with exactly the keys title,
\* author, isbn and status and string values, the store starts empty.
ExpectedShape(content) ==
    /\ content.kind = "file"
    /\ LET data == loads(strip(content.text))
       IN  /\ data.ok
           /\ data.val.t = "arr"
           /\ \A k \in 1..Len(data.val.v) :
                 LET item == data.val.v[k]
                 IN  /\ item.t = "obj"
                     /\ Len(item.v) = 4
                     /\ \A key \in {KTitle, KAuthor, KIsbn, KStatus} :
                           \E m \in 1..4 : item.v[m][1] = key /\ item.v[m][2].t = "str"

C9_ConstructorAbsorbs ==
    call.op = "__init__" =>
       /\ result = NoExc
       /\ ~ExpectedShape(fs[storage_path]) => books = <<>>

\* C10: when a step of _save fails during add_book, issue_book or
\* return_book, the call still succeeds, self.books holds the change and the
\* backing file keeps the content it had.
C10_PersistFailureAbsorbed ==
    [][ (call'.op \in Mutations /\ persist' \in Faults)
        => /\ result' = NoExc
           /\ books' # books
           /\ fs'[storage_path] = fs[storage_path] ]_vars

\* C11: whatever the storage path, _save writes to a temporary file that is
\* not the target, and after every step of every _save, one that fails
\* part-way included, the target is absent, holds what it held before, or
\* holds the whole snapshot of self.books.
C11_AtomicReplace ==
    [][ (call'.op \in Mutations /\ persist' # "skipped")
        => \A fault \in Faults \cup {"none"}, cut \in Cuts :
              FaultApplies(fault, storage_path) =>
                 \A s \in {_save(fs, dir, books', storage_path, fault, cut)} :
                    /\ with_suffix(storage_path, ".tmp") # storage_path
                    /\ \A k \in 1..Len(s.steps) :
                          s.steps[k][storage_path] \in
                             {NoFile, fs[storage_path], File(Snapshot(books'))} ]_vars

\* C12: search_by_title returns exactly the stored Books whose lower-cased
\* title contains the lower-cased query, in stored order, and changes
\* nothing; with the empty query (or none) it returns every stored Book.
TitleHas(b, query) ==
    /\ b.title.t = "str"
    /\ Contains(lower(query), lower(b.title.v))

C12_SearchByTitle ==
    [][ call'.op = "search_by_title"
        => LET query == IF call'.args[1] = None THEN <<>> ELSE call'.args[1].v
           IN  /\ result' = NoExc
               /\ ret'.kind = "list"
               /\ ret'.val = SelectSeq(books, LAMBDA b : TitleHas(b, query))
               /\ query = <<>> => ret'.val = books
               /\ books' = books /\ fs' = fs /\ dir' = dir ]_vars

\* C13: search_by_isbn returns the first stored Book whose isbn is equal to
\* the argument and None when there is none; the Book it returns never
\* has another isbn, whatever its title or a longer isbn contains; nothing
\* changes.
C13_SearchByIsbnExact ==
    [][ call'.op = "search_by_isbn"
        => LET isbn == call'.args[1]
           IN  /\ result' = NoExc
               /\ HasIsbn(books, isbn) =>
                     ret' = [kind |-> "Book", val |-> books[FirstWith(books, isbn)]]
               /\ ~HasIsbn(books, isbn) => ret' = NoReturn
               /\ ret'.kind = "Book" => Same(ret'.val.isbn, isbn)
               /\ books' = books /\ fs' = fs /\ dir' = dir ]_vars

\* C13 witness: nothing was found for an argument that a stored isbn
\* contains without being equal to it.
C13_Witness ==
    /\ call.op = "search_by_isbn"
    /\ ret = NoReturn
    /\ \E k \in 1..Len(books) :
          /\ books[k].isbn.t = "str"
          /\ Contains(call.args[1].v, books[k].isbn.v)

\* C14: in the loop of main a duplicate-key, not-found or invalid-state error
\* and a choice that is not on the menu do not end the process: a message
\* is printed, the store is unchanged and the menu comes again; the loop
\* ends only on choice 7 or on an interrupt at a prompt, and the interrupt
\* exits with status 0.
BusinessErrors == {Duplicate, NotFound, AlreadyIssued, AlreadyAvailable}
MenuChoices == {<<"1">>, <<"2">>, <<"3">>, <<"4">>, <<"5">>, <<"6">>, <<"7">>}

C14_LoopSurvivesErrors ==
    [][ pc = "menu"
        => LET exiting == stdout' = <<Line("\nExiting.")>>
           IN  /\ (~exiting /\ choice' \in {<<"1">>, <<"2">>, <<"3">>}
                             /\ result' \in BusinessErrors)
                   => /\ pc' = "menu" /\ exitcode' = -1
                      /\ stdout' = <<ErrorLine(result')>>
                      /\ books' = books /\ fs' = fs /\ dir' = dir
               /\ (~exiting /\ choice' \notin MenuChoices)
                   => /\ pc' = "menu" /\ exitcode' = -1
                      /\ stdout' = <<Line("Invalid option. Try again.")>>
                      /\ books' = books /\ fs' = fs /\ dir' = dir
               /\ exiting => pc' = "exited" /\ exitcode' = 0
               /\ pc' = "exited" => (exiting \/ choice' = <<"7">>) ]_vars

\* C15: add_book, issue_book and return_book run _save before they return,
\* and when no step of it failed the file decodes to exactly self.books: a
\* store constructed on the path right then holds the same Books, with the
\* same fields, in the same order.
C15_MutationPersists ==
    [][ /\ (call'.op \in Mutations /\ result' = NoExc)
           => /\ persist' # "skipped"
              /\ persist' = "ok" =>
                    \A l \in {_load(fs'[storage_path])} :
                       ~l.raised /\ l.books = books'
        /\ (call'.op = "__init__" /\ persist = "ok") => books' = books ]_vars

\* C15 witness: a return_book on a store of two Books was persisted.
C15_Witness ==
    /\ call.op = "return_book"
    /\ result = NoExc
    /\ persist = "ok"
    /\ Len(books) = 2

\* C16: add_book, issue_book and return_book, failed or not, keep the isbns
\* of self.books pairwise distinct.
DistinctIsbns(bs) ==
    \A j, k \in 1..Len(bs) : j # k => ~Same(bs[j].isbn, bs[k].isbn)

C16_IsbnsStayDistinct ==
    [][ (call'.op \in Mutations /\ DistinctIsbns(books)) => DistinctIsbns(books') ]_vars

\* C16 witness: a store of two Books with distinct isbns has refused an add.
C16_Witness ==
    /\ call.op = "add_book"
    /\ result = Duplicate
    /\ Len(books) = 2
    /\ DistinctIsbns(books)

\* C17: no call on a store removes a Book or moves one: the (title, author,
\* isbn) triples before a call are a prefix of the triples after it.
Triples(bs) == [k \in 1..Len(bs) |-> <<bs[k].title, bs[k].author, bs[k].isbn>>]

C17_NeverDeletedOrReordered ==
    [][ call'.op # "__init__"
        => /\ Len(books') >= Len(books)
           /\ SubSeq(Triples(books'), 1, Len(books)) = Triples(books) ]_vars

\* C17 witness: the second of two Books was issued and both are in place.
C17_Witness ==
    /\ call.op = "issue_book"
    /\ result = NoExc
    /\ Len(books) = 2
    /\ Same(books[2].isbn, call.args[1])
    /\ ~Same(books[1].isbn, call.args[1])

\* C18: display_all returns the Books in stored order and changes nothing,
\* and nothing the caller does with what it got (removing from the list,
\* changing a Book of the list) changes self.books or a stored Book.
C18_ReadOnlyView ==
    [][ /\ call'.op = "display_all"
           => /\ ret' = [kind |-> "list", val |-> books]
              /\ books' = books /\ fs' = fs /\ dir' = dir
        /\ call'.op = "caller" => (books' = books /\ fs' = fs /\ dir' = dir) ]_vars

\* C19: a _save that succeeds after one or more that failed leaves a file
\* that decodes to the whole of self.books, the changes whose own _save
\* failed included.
C19_LagHealed ==
    [][ (call'.op \in Mutations /\ faults > 0 /\ persist' = "ok")
        => \A l \in {_load(fs'[storage_path])} : ~l.raised /\ l.books = books' ]_vars

\* C19 witness: a _save succeeded after a failed one, on a store of two
\* Books.
C19_Witness ==
    /\ healed > 0
    /\ persist = "ok"
    /\ Len(books) = 2

\* C20: the constructor, search_by_title, search_by_isbn, display_all and
\* every add_book, issue_book or return_book that raised leave every file
\* as it was; the backing file changes only in the _save of a call that
\* returned.
C20_ReadsNeverWrite ==
    [][ /\ call'.op \in {"__init__", "search_by_title", "search_by_isbn", "display_all"}
           => (fs' = fs /\ dir' = dir)
        /\ (call'.op \in Mutations /\ result' # NoExc) => (fs' = fs /\ dir' = dir)
        /\ fs'[storage_path] # fs[storage_path]
           => (call'.op \in Mutations /\ result' = NoExc /\ persist' # "skipped") ]_vars

\* C20 witness: on a store that absorbed a corrupt file an issue_book failed
\* and the file is still the corrupt one.
C20_Witness ==
    /\ call.op = "issue_book"
    /\ result = NotFound
    /\ fs[storage_path] = File(<<"[", "{">>)
====
